---- MODULE Spec2Model ----
(***************************************************************************)
(* Todo CRUD backend: the Flask application (src/app/app.py) and the       *)
(* per-invocation handler (src/app/handler.py) over one DynamoDB table.    *)
(* A request is handled in one step: every handler issues at most one      *)
(* table call, which DynamoDB applies atomically.  SpecRace lets the       *)
(* handlers of several workers overlap, SpecJwks the threads inside        *)
(* get_jwks_client().                                                      *)
(***************************************************************************)
EXTENDS Integers, Sequences, FiniteSets, TLC

VARIABLES
    shape,            \* which deployment runs: "flask" (app.py) or "lambda" (handler.py)
    table,            \* the DynamoDB table: a set of items
    clock,            \* the wall clock read by now_iso() and time.time()
    jwks_client,      \* app.py _jwks_client: {} is None, {n} the client built at time n
    jwks_last_init,   \* app.py _jwks_last_init
    req,              \* the request handled last
    resp,             \* the response to it
    ops,              \* the table calls (and verifier calls) made while handling it
    prev,             \* the table as it was when that request arrived
    minted,           \* history: the ids returned by a 201 of POST /todos
    gone,             \* history: the ids whose DELETE returned 204, not created since
    walk,             \* a client paging through GET /todos
    fresh,            \* history: the records create returned, not updated or deleted since
    inflight,         \* per worker: the request it has read and validated, not yet
                      \* sent to the table; Idle when it has none
    callers           \* per thread of the Flask app: where it is in get_jwks_client()

vars == <<shape, table, clock, jwks_client, jwks_last_init, req, resp, ops, prev,
          minted, gone, walk, fresh, inflight, callers>>

----------------------------------------------------------------------------
(* Bounds of the model *)

NumIds == 2
MaxClock == 1
NumListIds == 3
MaxWalkLimit == 3
MaxPad == 1
NumWorkers == 2
NumThreads == 2

(* Program constants *)

DEFAULT_PAGE_SIZE == 20
MAX_TITLE_LEN == 140
MinPageSize == 1
MaxPageSize == 100
JWKS_TTL_SECONDS == 3600

----------------------------------------------------------------------------
(* Values *)

IdName == <<"t1", "t2", "t3", "t4">>

\* the strings uuid.uuid4() can return
Ids == {IdName[i] : i \in 1..NumIds}

Min2(a, b) == IF a < b THEN a ELSE b

Max2(a, b) == IF a > b THEN a ELSE b

\* Python strings are sequences of one-character strings
IsSpace(c) == c \in {" ", "\t", "\n"}

Rep(c, n) == [i \in 1..n |-> c]

\* str.lstrip(): only the leading whitespace goes
StripLead(s) ==
    LET keep == {i \in 1..Len(s) : ~IsSpace(s[i])}
    IN  IF keep = {} THEN <<>>
        ELSE SubSeq(s, CHOOSE i \in keep : \A j \in keep : i <= j, Len(s))

\* no trimming at all
StripNone(s) == s

\* str.strip()
Strip(s) ==
    LET keep == {i \in 1..Len(s) : ~IsSpace(s[i])}
    IN  IF keep = {} THEN <<>>
        ELSE LET lo == CHOOSE i \in keep : \A j \in keep : i <= j
                 hi == CHOOSE i \in keep : \A j \in keep : i >= j
             IN  SubSeq(s, lo, hi)

\* JSON values of a body member: absent key, null, a number, a string
JAbsent == [t |-> "absent", v |-> <<>>]

JNull == [t |-> "null", v |-> <<>>]

JNum == [t |-> "num", v |-> <<>>]

JStr(s) == [t |-> "str", v |-> s]

\* the same for a dueDate member, whose strings are written as TLA+ strings
DAbsent == [t |-> "absent", v |-> ""]

DNull == [t |-> "null", v |-> ""]

DNum == [t |-> "num", v |-> ""]

DStr(s) == [t |-> "str", v |-> s]

\* dict.get(key): None for an absent key
DictGet(val) == IF val.t = "absent" THEN [val EXCEPT !.t = "null"] ELSE val

\* str.replace("Z", "+00:00") on the date strings of the model
ReplaceZ(s) ==
    CASE s = "2024-01-01T00:00:00Z" -> "2024-01-01T00:00:00+00:00"
      [] s = "2025-01-01T00:00:00Z" -> "2025-01-01T00:00:00+00:00"
      [] OTHER -> s

\* datetime.fromisoformat succeeds
FromIsoFormatOk(s) ==
    s \in {"2024-01-01T00:00:00+00:00", "2025-01-01T00:00:00+00:00", "2024-01-01"}

validate_due_date(val) ==
    IF val.t = "null" THEN TRUE
    ELSE IF val.t # "str" THEN FALSE       \* .replace raises, caught
    ELSE FromIsoFormatOk(ReplaceZ(val.v))

\* JSON_CT_RE.match(ct): "application/json", any case, then nothing or ";" parameters
Lower(s) ==
    CASE s = "APPLICATION/JSON" -> "application/json"
      [] s = "Application/Json" -> "application/json"
      [] OTHER -> s

JSON_CT_RE(ct) == Lower(ct.media) = "application/json" /\ ct.tail \in {"", ";"}

CtJson == [media |-> "application/json", tail |-> ""]

CtJsonCharset == [media |-> "Application/Json", tail |-> ";"]

CtText == [media |-> "text/plain", tail |-> ""]

CtNone == [media |-> "", tail |-> ""]

----------------------------------------------------------------------------
(* The table (boto3 Table calls; DynamoDB applies each call atomically) *)

HasKey(tbl, k) == \E it \in tbl : it.id = k

\* a get_item that answers with some stored item, whatever the key
GetItemAny(tbl, k) == IF tbl = {} THEN {} ELSE {CHOOSE it \in tbl : TRUE}

\* table.get_item(Key={"id": k}).get("Item")
GetItem(tbl, k) == {it \in tbl : it.id = k}

\* put_item without its ConditionExpression: the item replaces the one of its key
PutItemOverwrite(tbl, item) ==
    [err |-> "", table |-> {it \in tbl : it.id # item.id} \cup {item}]

\* table.put_item(Item=item, ConditionExpression="attribute_not_exists(id)")
PutItemIfNew(tbl, item) ==
    IF HasKey(tbl, item.id)
    THEN [err |-> "ConditionalCheckFailedException", table |-> tbl]
    ELSE [err |-> "", table |-> {it \in tbl : it.id # item.id} \cup {item}]

\* update_item without its ConditionExpression: an absent key is created
UpdateItemUpsert(tbl, k, sets) ==
    LET olds == {it \in tbl : it.id = k}
        new == IF olds = {} THEN [id |-> k] @@ sets
               ELSE LET old == CHOOSE it \in olds : TRUE
                    IN  [f \in DOMAIN old |-> IF f \in DOMAIN sets THEN sets[f] ELSE old[f]]
    IN  [err |-> "", table |-> (tbl \ olds) \cup {new}, attrs |-> {new}]

\* update_item that writes dueDate even when the body does not supply it
UpdateItemClobber(tbl, k, sets) ==
    IF ~HasKey(tbl, k)
    THEN [err |-> "ConditionalCheckFailedException", table |-> tbl, attrs |-> {}]
    ELSE LET old == CHOOSE it \in tbl : it.id = k
             new == [f \in DOMAIN old |->
                        IF f \in DOMAIN sets THEN sets[f]
                        ELSE IF f = "dueDate" THEN DNull ELSE old[f]]
         IN  [err |-> "", table |-> (tbl \ {old}) \cup {new}, attrs |-> {new}]

\* update_item that also stamps createdAt with the time of the update
UpdateItemRestamp(tbl, k, sets) ==
    IF ~HasKey(tbl, k)
    THEN [err |-> "ConditionalCheckFailedException", table |-> tbl, attrs |-> {}]
    ELSE LET old == CHOOSE it \in tbl : it.id = k
             new == [f \in DOMAIN old |->
                        IF f \in DOMAIN sets THEN sets[f]
                        ELSE IF f = "createdAt" THEN sets.updatedAt ELSE old[f]]
         IN  [err |-> "", table |-> (tbl \ {old}) \cup {new}, attrs |-> {new}]

\* table.update_item(Key, UpdateExpression="SET ...", ConditionExpression=
\* "attribute_exists(id)", ReturnValues="ALL_NEW"); sets maps an attribute to its value
UpdateItemIfExists(tbl, k, sets) ==
    IF ~HasKey(tbl, k)
    THEN [err |-> "ConditionalCheckFailedException", table |-> tbl, attrs |-> {}]
    ELSE LET old == CHOOSE it \in tbl : it.id = k
             new == [f \in DOMAIN old |->
                        IF f \in DOMAIN sets THEN sets[f] ELSE old[f]]
         IN  [err |-> "", table |-> (tbl \ {old}) \cup {new}, attrs |-> {new}]

\* delete_item without its ConditionExpression: an absent key is no error
DeleteItemUnconditional(tbl, k) ==
    [err |-> "", table |-> {it \in tbl : it.id # k}]

\* table.delete_item(Key, ConditionExpression="attribute_exists(id)")
DeleteItemIfExists(tbl, k) ==
    IF ~HasKey(tbl, k)
    THEN [err |-> "ConditionalCheckFailedException", table |-> tbl]
    ELSE [err |-> "", table |-> {it \in tbl : it.id # k}]

\* the order in which a scan walks the keys (DynamoDB's hash order: fixed, arbitrary)
ScanPos(k) == CHOOSE i \in 1..Len(IdName) : IdName[i] = k

\* table.scan(Limit=limit[, ExclusiveStartKey={"id": start}]); start is {} or {key}.
\* lekAtEnd: whether DynamoDB reports a LastEvaluatedKey when the page is full and
\* nothing follows it (its contract allows both).
Scan(tbl, limit, start, lekAtEnd) ==
    LET from == IF start = {} THEN 0 ELSE ScanPos(CHOOSE k \in start : TRUE)
        rest == {it \in tbl : ScanPos(it.id) > from}
        Before(it) == Cardinality({o \in rest : ScanPos(o.id) < ScanPos(it.id)})
        n == Min2(limit, Cardinality(rest))
        page == [i \in 1..n |-> CHOOSE it \in rest : Before(it) = i - 1]
        more == Cardinality(rest) > limit
    IN  [Items |-> page,
         LastEvaluatedKey |->
            IF n > 0 /\ (more \/ (n = limit /\ lekAtEnd)) THEN {page[n].id} ELSE {}]

----------------------------------------------------------------------------
(* Request bodies *)

\* A body as sent: kind is "absent" (no body), "invalid" (not JSON), "object",
\* "null", "array", "string", "number" or "boolean". An object carries its title
\* and dueDate members and the names of its other members; an array or a string
\* carries the set `has` of strings that `in` finds in it; `empty` marks [], "", 0
\* and false.
Body(kind, title, dueDate, others, has, empty) ==
    [kind |-> kind, title |-> title, dueDate |-> dueDate,
     others |-> others, has |-> has, empty |-> empty]

NoBody == Body("absent", JAbsent, DAbsent, {}, {}, TRUE)

BadJson == Body("invalid", JAbsent, DAbsent, {}, {}, FALSE)

Obj(title, dueDate) == Body("object", title, dueDate, {}, {}, FALSE)

\* Python truthiness of the parsed body, as in `body or {}`
Falsy(b) ==
    \/ b.kind = "null"
    \/ b.kind = "object" /\ b.title.t = "absent" /\ b.dueDate.t = "absent" /\ b.others = {}
    \/ b.kind \in {"array", "string", "number", "boolean"} /\ b.empty

\* (body or {}).get(key): the value, or "AttributeError" where body has no .get
BodyGet(b, key) ==
    IF Falsy(b) THEN [exc |-> "", val |-> JNull]
    ELSE IF b.kind = "object" THEN [exc |-> "", val |-> DictGet(b[key])]
    ELSE [exc |-> "AttributeError", val |-> JNull]

\* a membership test that finds every key in every body
BodyHasAny(b, key) == [exc |-> "", has |-> TRUE]

\* key in (body or {}): "TypeError" where `in` is not defined (a number, a boolean)
BodyHas(b, key) ==
    IF Falsy(b) THEN [exc |-> "", has |-> FALSE]
    ELSE IF b.kind = "object" THEN [exc |-> "", has |-> b[key].t # "absent"]
    ELSE IF b.kind \in {"number", "boolean"} THEN [exc |-> "TypeError", has |-> FALSE]
    ELSE [exc |-> "", has |-> key \in b.has]

\* body[key] after `key in body` held: "TypeError" for a list or a string
BodyIndex(b, key) ==
    IF b.kind = "object" THEN [exc |-> "", val |-> b[key]]
    ELSE [exc |-> "TypeError", val |-> JNull]

----------------------------------------------------------------------------
(* Responses and the record of calls *)

\* status, error code ("" on success), the item / items / nextCursor of the body
Resp(status, code) ==
    [status |-> status, code |-> code, item |-> {}, items |-> <<>>, nextCursor |-> {}]

RespItem(status, item) == [Resp(status, "") EXCEPT !.item = item]

RespList(items, next) == [Resp(200, "") EXCEPT !.items = items, !.nextCursor = next]

\* one call made while handling a request
Call(op, key, limit, res) == [op |-> op, key |-> key, limit |-> limit, res |-> res]

StoreOps == {"put_item", "get_item", "update_item", "delete_item", "scan"}

\* what handling a request yields: the response, the table, the calls, the key cache
Out(r, tbl, calls, jc, jl) ==
    [resp |-> r, table |-> tbl, ops |-> calls, jc |-> jc, jl |-> jl]

----------------------------------------------------------------------------
(* Token verification (app.py) *)

\* A bearer token, by what PyJWKClient and jwt.decode find in it
Token(name, sub, username) ==
    [name |-> name, wellformed |-> TRUE, kidKnown |-> TRUE, sigOk |-> TRUE,
     hasExpIat |-> TRUE, expired |-> FALSE, issOk |-> TRUE, audOk |-> TRUE,
     token_use |-> "access", groups |-> {}, sub |-> sub, username |-> username]

TokAlice == Token("alice", "sub-alice", "alice")

TokBob == Token("bob", "sub-bob", "bob")

TokExpired == [TokAlice EXCEPT !.name = "expired", !.expired = TRUE]

TokBadSig == [TokAlice EXCEPT !.name = "badsig", !.sigOk = FALSE]

TokIdUse == [TokAlice EXCEPT !.name = "iduse", !.token_use = "id"]

TokGarbage == [TokAlice EXCEPT !.name = "garbage", !.wellformed = FALSE]

\* the Authorization header: scheme "" (no header), "Basic", "Bearer"
NoAuth == [scheme |-> "", token |-> TokGarbage]

BasicAuth == [scheme |-> "Basic", token |-> TokGarbage]

Bearer(tok) == [scheme |-> "Bearer", token |-> tok]

\* configuration read from the environment at import (app.py 33-37)
COGNITO_AUDIENCE == {}

ACCEPTED_TOKEN_USE == "access"

REQUIRED_GROUP == {}

\* a cache that already counts a client as stale when its age equals the TTL
GetJwksClientEarly(jc, jl, now, headOk) ==
    IF jc = {} \/ (now - jl) >= JWKS_TTL_SECONDS
    THEN IF headOk THEN [exc |-> "", jc |-> {now}, jl |-> now, fetched |-> TRUE]
         ELSE [exc |-> "RequestException", jc |-> jc, jl |-> jl, fetched |-> FALSE]
    ELSE [exc |-> "", jc |-> jc, jl |-> jl, fetched |-> FALSE]

\* get_jwks_client(): the cached client, rebuilt when there is none or it is older
\* than the TTL; requests.head raises RequestException when the endpoint is unreachable.
\* fetched: requests.head answered and a new PyJWKClient was built
get_jwks_client(jc, jl, now, headOk) ==
    IF jc = {} \/ (now - jl) > JWKS_TTL_SECONDS
    THEN IF headOk THEN [exc |-> "", jc |-> {now}, jl |-> now, fetched |-> TRUE]
         ELSE [exc |-> "RequestException", jc |-> jc, jl |-> jl, fetched |-> FALSE]
    ELSE [exc |-> "", jc |-> jc, jl |-> jl, fetched |-> FALSE]

\* jwt.decode and the checks after it: the exception raised, "" when the claims verify
VerifyClaims(tok) ==
    IF ~tok.sigOk THEN "InvalidTokenError"
    ELSE IF ~tok.hasExpIat THEN "InvalidTokenError"
    ELSE IF tok.expired THEN "ExpiredSignatureError"
    ELSE IF ~tok.issOk THEN "InvalidTokenError"
    ELSE IF COGNITO_AUDIENCE # {} /\ ~tok.audOk THEN "InvalidTokenError"
    ELSE IF ACCEPTED_TOKEN_USE # "" /\ tok.token_use # ACCEPTED_TOKEN_USE
        THEN "InvalidTokenError"
    ELSE IF REQUIRED_GROUP # {} /\ ~(REQUIRED_GROUP \subseteq tok.groups)
        THEN "InvalidTokenError"
    ELSE ""

\* decode_and_verify(token); keysOk: PyJWKClient could download the key set
decode_and_verify(tok, jc, jl, now, headOk, keysOk) ==
    LET c == get_jwks_client(jc, jl, now, headOk)
        exc == IF c.exc # "" THEN c.exc
               ELSE IF ~tok.wellformed THEN "InvalidTokenError"
               ELSE IF ~keysOk \/ ~tok.kidKnown THEN "PyJWKClientError"
               ELSE VerifyClaims(tok)
    IN  [exc |-> exc, jc |-> c.jc, jl |-> c.jl, fetched |-> c.fetched]

\* require_auth's wrapper up to the call of the view: the response that ends the
\* request, or status 0 to go on with g.principal set. calls: the requests.head of
\* get_jwks_client() when it was sent, then decode_and_verify with what it raised
require_auth(r, jc, jl, now) ==
    IF r.auth.scheme # "Bearer"
    THEN [resp |-> Resp(401, "UNAUTHORIZED"), jc |-> jc, jl |-> jl, calls |-> <<>>]
    ELSE LET d == decode_and_verify(r.auth.token, jc, jl, now, r.headOk, r.keysOk)
             head == IF d.fetched THEN <<Call("requests.head", "", 0, "")>>
                     ELSE IF d.exc = "RequestException"
                     THEN <<Call("requests.head", "", 0, "RequestException")>>
                     ELSE <<>>
             calls == head \o <<Call("decode_and_verify", r.auth.token.name, 0, d.exc)>>
             rsp == CASE d.exc = "" -> Resp(0, "")
                      [] d.exc = "RequestException" -> Resp(502, "JWKS_FETCH_FAILED")
                      [] d.exc = "ExpiredSignatureError" -> Resp(401, "TOKEN_EXPIRED")
                      [] d.exc = "InvalidTokenError" -> Resp(401, "INVALID_TOKEN")
                      [] OTHER -> Resp(500, "INTERNAL_ERROR")
         IN  [resp |-> rsp, jc |-> d.jc, jl |-> d.jl, calls |-> calls]

----------------------------------------------------------------------------
(* Query parameters *)

\* a query parameter as received: absent, "", a string int() rejects, or an integer
QAbsent == [t |-> "absent", n |-> 0]

QEmpty == [t |-> "empty", n |-> 0]

QNonInt == [t |-> "nonint", n |-> 0]

QInt(n) == [t |-> "int", n |-> n]

\* `if limit_raw:` holds for a non-empty string
Truthy(q) == q.t \in {"nonint", "int"}

\* limit = DEFAULT_PAGE_SIZE; if limit_raw: limit = max(1, min(100, int(limit_raw)));
\* 0 stands for the ValueError of int()
PageLimit(limit_raw) ==
    IF ~Truthy(limit_raw) THEN DEFAULT_PAGE_SIZE
    ELSE IF limit_raw.t = "nonint" THEN 0
    ELSE Max2(MinPageSize, Min2(MaxPageSize, limit_raw.n))

\* a scan that never passes ExclusiveStartKey on
StartKeyDropped(cursor) == {k \in cursor : FALSE}

\* the cursor parameter is {} when absent, else {string};
\* scan_kwargs["ExclusiveStartKey"] is set only `if cursor:`
StartKey(cursor) == {k \in cursor : k # ""}

----------------------------------------------------------------------------
(* app.py: the Flask views *)

\* a view's result: the response, the table after it, the table calls it made
View(rsp, tbl, calls) == [resp |-> rsp, table |-> tbl, calls |-> calls]

\* parse_json_body() of app.py: the error code, "" when the body parsed
app_parse_json_body(r) ==
    IF ~JSON_CT_RE(r.ct) THEN "INVALID_CONTENT_TYPE"
    ELSE IF r.body.kind \in {"absent", "invalid"} THEN "INVALID_JSON"
    ELSE ""

\* create_todo() under @require_auth, for a request that passed the wrapper
create_todo(r, tbl, now) ==
    LET err == app_parse_json_body(r)
        t == BodyGet(r.body, "title")
        d == BodyGet(r.body, "dueDate")
        item == [id |-> r.mint, title |-> Strip(t.val.v), dueDate |-> d.val,
                 createdAt |-> now, updatedAt |-> now,
                 ownerSub |-> r.auth.token.sub, ownerUsername |-> r.auth.token.username]
        put == PutItemIfNew(tbl, item)
    IN  IF r.method = "OPTIONS" THEN View(Resp(204, ""), tbl, <<>>)
        ELSE IF err # "" THEN View(Resp(400, err), tbl, <<>>)
        ELSE IF t.exc # "" THEN View(Resp(500, "INTERNAL_ERROR"), tbl, <<>>)
        ELSE IF t.val.t # "str" \/ Strip(t.val.v) = <<>>
            THEN View(Resp(400, "MISSING_TITLE"), tbl, <<>>)
        ELSE IF Len(t.val.v) > MAX_TITLE_LEN
            THEN View(Resp(400, "TITLE_TOO_LONG"), tbl, <<>>)
        ELSE IF ~validate_due_date(d.val)
            THEN View(Resp(400, "INVALID_DUE_DATE"), tbl, <<>>)
        ELSE IF r.fault
            THEN View(Resp(502, "AWS_ERROR"), tbl,
                      <<Call("put_item", r.mint, 0, "ClientError")>>)
        ELSE IF put.err # ""
            THEN View(Resp(409, "CONFLICT"), put.table,
                      <<Call("put_item", r.mint, 0, put.err)>>)
        ELSE View(RespItem(201, {item}), put.table,
                  <<Call("put_item", r.mint, 0, "")>>)

\* the PUT branch of todo_by_id()
app_update(r, k, tbl, now) ==
    LET err == app_parse_json_body(r)
        hasT == BodyHas(r.body, "title")
        hasD == BodyHas(r.body, "dueDate")
        t == BodyIndex(r.body, "title")
        d == BodyIndex(r.body, "dueDate")
        setT == IF hasT.has THEN [title |-> Strip(t.val.v)] ELSE <<>>
        setD == IF hasD.has THEN [dueDate |-> d.val] ELSE <<>>
        sets == setT @@ setD @@ [updatedAt |-> now]
        upd == UpdateItemIfExists(tbl, k, sets)
    IN  IF err # "" THEN View(Resp(400, err), tbl, <<>>)
        ELSE IF hasT.exc # "" THEN View(Resp(500, "INTERNAL_ERROR"), tbl, <<>>)
        ELSE IF hasT.has /\ t.exc # "" THEN View(Resp(500, "INTERNAL_ERROR"), tbl, <<>>)
        ELSE IF hasT.has /\ (t.val.t # "str" \/ Strip(t.val.v) = <<>>)
            THEN View(Resp(400, "INVALID_TITLE"), tbl, <<>>)
        ELSE IF hasT.has /\ Len(t.val.v) > MAX_TITLE_LEN
            THEN View(Resp(400, "TITLE_TOO_LONG"), tbl, <<>>)
        ELSE IF hasD.has /\ d.exc # "" THEN View(Resp(500, "INTERNAL_ERROR"), tbl, <<>>)
        ELSE IF hasD.has /\ ~validate_due_date(d.val)
            THEN View(Resp(400, "INVALID_DUE_DATE"), tbl, <<>>)
        ELSE IF ~hasT.has /\ ~hasD.has
            THEN View(Resp(400, "NO_MUTABLE_FIELDS"), tbl, <<>>)
        ELSE IF r.fault
            THEN View(Resp(502, "AWS_ERROR"), tbl,
                      <<Call("update_item", k, 0, "ClientError")>>)
        ELSE IF upd.err # ""
            THEN View(Resp(404, "NOT_FOUND"), upd.table,
                      <<Call("update_item", k, 0, upd.err)>>)
        ELSE View(RespItem(200, upd.attrs), upd.table,
                  <<Call("update_item", k, 0, "")>>)

\* todo_by_id(todo_id) under @require_auth, for a request that passed the wrapper
todo_by_id(r, k, tbl, now) ==
    LET got == GetItem(tbl, k)
        del == DeleteItemIfExists(tbl, k)
    IN  CASE r.method = "OPTIONS" -> View(Resp(204, ""), tbl, <<>>)
          [] r.method = "GET" ->
                IF r.fault      \* get_item is not inside a try: Flask answers 500
                THEN View(Resp(500, "INTERNAL_ERROR"), tbl,
                          <<Call("get_item", k, 0, "ClientError")>>)
                ELSE IF got = {}
                THEN View(Resp(404, "NOT_FOUND"), tbl, <<Call("get_item", k, 0, "")>>)
                ELSE View(RespItem(200, got), tbl, <<Call("get_item", k, 0, "")>>)
          [] r.method = "PUT" -> app_update(r, k, tbl, now)
          [] r.method = "DELETE" ->
                IF r.fault
                THEN View(Resp(502, "AWS_ERROR"), tbl,
                          <<Call("delete_item", k, 0, "ClientError")>>)
                ELSE IF del.err # ""
                THEN View(Resp(404, "NOT_FOUND"), del.table,
                          <<Call("delete_item", k, 0, del.err)>>)
                ELSE View(Resp(204, ""), del.table, <<Call("delete_item", k, 0, "")>>)
          [] OTHER -> View(Resp(405, "METHOD_NOT_ALLOWED"), tbl, <<>>)

\* list_todos() under @require_auth, for a request that passed the wrapper
list_todos(r, tbl) ==
    LET limit == PageLimit(r.limit)
        start == StartKey(r.cursor)
        key == IF start = {} THEN "" ELSE CHOOSE k \in start : TRUE
        res == Scan(tbl, limit, start, r.lekAtEnd)
    IN  IF r.method = "OPTIONS" THEN View(Resp(204, ""), tbl, <<>>)
        ELSE IF limit = 0 THEN View(Resp(400, "INVALID_LIMIT"), tbl, <<>>)
        ELSE IF r.fault     \* scan is not inside a try: Flask answers 500
            THEN View(Resp(500, "INTERNAL_ERROR"), tbl,
                      <<Call("scan", key, limit, "ClientError")>>)
        ELSE View(RespList(res.Items, res.LastEvaluatedKey), tbl,
                  <<Call("scan", key, limit, "")>>)

----------------------------------------------------------------------------
(* handler.py: the per-invocation handler *)

\* parse_json_body(event): the error code ("" when parsed) and the parsed body;
\* a missing or empty body is read as "{}"
handler_parse_json_body(r) ==
    IF ~JSON_CT_RE(r.ct) THEN [err |-> "INVALID_CONTENT_TYPE", body |-> r.body]
    ELSE IF r.body.kind = "absent" THEN [err |-> "", body |-> Obj(JAbsent, DAbsent)]
    ELSE IF r.body.kind = "invalid" THEN [err |-> "INVALID_JSON", body |-> r.body]
    ELSE [err |-> "", body |-> r.body]

\* the route template API Gateway reports in routeKey for a path
Template(path) ==
    IF Len(path) = 2 /\ path[1] = "todos" THEN <<"todos", "{id}">> ELSE path

\* get_path_method(event): <<path, method>>. A path is its sequence of segments.
\* evt "routeKey": HTTP API v2 with routeKey "METHOD /template"; "rest": REST API v1
\* with path and httpMethod; "rawPath": HTTP API v2 with routeKey "$default"
get_path_method(r) ==
    CASE r.evt = "routeKey" -> <<Template(r.path), r.method>>
      [] r.evt = "rest" -> <<r.path, r.method>>
      [] OTHER ->
            IF r.stage # "" /\ Len(r.rawPath) >= 2 /\ r.rawPath[1] = r.stage
            THEN <<Tail(r.rawPath), r.method>>
            ELSE IF r.stage # "" /\ r.rawPath = <<r.stage>>
            THEN <<(<<>>), r.method>>
            ELSE <<r.rawPath, r.method>>

\* a handler's result: the response or the exception it raises
Raise(exc, tbl, calls) == [exc |-> exc, resp |-> Resp(0, ""), table |-> tbl, calls |-> calls]

Return(rsp, tbl, calls) == [exc |-> "", resp |-> rsp, table |-> tbl, calls |-> calls]

handle_create_todo(r, tbl, now) ==
    LET p == handler_parse_json_body(r)
        t == BodyGet(p.body, "title")
        d == BodyGet(p.body, "dueDate")
        item == [id |-> r.mint, title |-> Strip(t.val.v), dueDate |-> d.val,
                 createdAt |-> now, updatedAt |-> now]
        put == PutItemIfNew(tbl, item)
    IN  IF p.err # "" THEN Return(Resp(400, p.err), tbl, <<>>)
        ELSE IF t.exc # "" THEN Raise(t.exc, tbl, <<>>)
        ELSE IF t.val.t # "str" \/ Strip(t.val.v) = <<>>
            THEN Return(Resp(400, "MISSING_TITLE"), tbl, <<>>)
        ELSE IF Len(t.val.v) > MAX_TITLE_LEN
            THEN Return(Resp(400, "TITLE_TOO_LONG"), tbl, <<>>)
        ELSE IF ~validate_due_date(d.val)
            THEN Return(Resp(400, "INVALID_DUE_DATE"), tbl, <<>>)
        ELSE IF r.fault
            THEN Raise("ClientError", tbl, <<Call("put_item", r.mint, 0, "ClientError")>>)
        ELSE IF put.err # ""
            THEN Return(Resp(409, "CONFLICT"), put.table,
                        <<Call("put_item", r.mint, 0, put.err)>>)
        ELSE Return(RespItem(201, {item}), put.table,
                    <<Call("put_item", r.mint, 0, "")>>)

handle_get_todo(r, k, tbl) ==
    LET got == GetItem(tbl, k)
    IN  IF r.fault
        THEN Raise("ClientError", tbl, <<Call("get_item", k, 0, "ClientError")>>)
        ELSE IF got = {}
        THEN Return(Resp(404, "NOT_FOUND"), tbl, <<Call("get_item", k, 0, "")>>)
        ELSE Return(RespItem(200, got), tbl, <<Call("get_item", k, 0, "")>>)

handle_list_todos(r, tbl) ==
    LET limit == PageLimit(r.limit)
        start == StartKey(r.cursor)
        key == IF start = {} THEN "" ELSE CHOOSE k \in start : TRUE
        res == Scan(tbl, limit, start, r.lekAtEnd)
    IN  IF limit = 0 THEN Return(Resp(400, "INVALID_LIMIT"), tbl, <<>>)
        ELSE IF r.fault
            THEN Raise("ClientError", tbl, <<Call("scan", key, limit, "ClientError")>>)
        ELSE Return(RespList(res.Items, res.LastEvaluatedKey), tbl,
                    <<Call("scan", key, limit, "")>>)

handle_update_todo(r, k, tbl, now) ==
    LET p == handler_parse_json_body(r)
        hasT == BodyHas(p.body, "title")
        hasD == BodyHas(p.body, "dueDate")
        t == BodyIndex(p.body, "title")
        d == BodyIndex(p.body, "dueDate")
        setT == IF hasT.has THEN [title |-> Strip(t.val.v)] ELSE <<>>
        setD == IF hasD.has THEN [dueDate |-> d.val] ELSE <<>>
        sets == setT @@ setD @@ [updatedAt |-> now]
        upd == UpdateItemIfExists(tbl, k, sets)
    IN  IF p.err # "" THEN Return(Resp(400, p.err), tbl, <<>>)
        ELSE IF hasT.exc # "" THEN Raise(hasT.exc, tbl, <<>>)
        ELSE IF hasT.has /\ t.exc # "" THEN Raise(t.exc, tbl, <<>>)
        ELSE IF hasT.has /\ (t.val.t # "str" \/ Strip(t.val.v) = <<>>)
            THEN Return(Resp(400, "INVALID_TITLE"), tbl, <<>>)
        ELSE IF hasT.has /\ Len(t.val.v) > MAX_TITLE_LEN
            THEN Return(Resp(400, "TITLE_TOO_LONG"), tbl, <<>>)
        ELSE IF hasD.has /\ d.exc # "" THEN Raise(d.exc, tbl, <<>>)
        ELSE IF hasD.has /\ ~validate_due_date(d.val)
            THEN Return(Resp(400, "INVALID_DUE_DATE"), tbl, <<>>)
        ELSE IF ~hasT.has /\ ~hasD.has
            THEN Return(Resp(400, "NO_MUTABLE_FIELDS"), tbl, <<>>)
        ELSE IF r.fault
            THEN Raise("ClientError", tbl, <<Call("update_item", k, 0, "ClientError")>>)
        ELSE IF upd.err # ""
            THEN Return(Resp(404, "NOT_FOUND"), upd.table,
                        <<Call("update_item", k, 0, upd.err)>>)
        ELSE Return(RespItem(200, upd.attrs), upd.table,
                    <<Call("update_item", k, 0, "")>>)

handle_delete_todo(r, k, tbl) ==
    LET del == DeleteItemIfExists(tbl, k)
    IN  IF r.fault
        THEN Raise("ClientError", tbl, <<Call("delete_item", k, 0, "ClientError")>>)
        ELSE IF del.err # ""
        THEN Return(Resp(404, "NOT_FOUND"), del.table,
                    <<Call("delete_item", k, 0, del.err)>>)
        ELSE Return(Resp(204, ""), del.table, <<Call("delete_item", k, 0, "")>>)

\* the route lambda_handler takes for <<path, method>>
LambdaRoute(pm) ==
    LET path == pm[1]
        method == pm[2]
    IN  IF method = "OPTIONS" THEN "preflight"
        ELSE IF path = <<"health">> /\ method = "GET" THEN "health"
        ELSE IF path = <<"todos">> /\ method = "POST" THEN "create"
        ELSE IF path = <<"todos">> /\ method = "GET" THEN "list"
        ELSE IF Len(path) >= 2 /\ path[1] = "todos" /\ method = "GET" THEN "get"
        ELSE IF Len(path) >= 2 /\ path[1] = "todos" /\ method = "PUT" THEN "update"
        ELSE IF Len(path) >= 2 /\ path[1] = "todos" /\ method = "DELETE" THEN "delete"
        ELSE "not_found"

\* todo_id = path.rsplit("/", 1)[-1]
TodoId(path) == path[Len(path)]

\* the try/except of lambda_handler around a route's handler
Guarded(h) ==
    IF h.exc = "" THEN View(h.resp, h.table, h.calls)
    ELSE IF h.exc = "ClientError" THEN View(Resp(502, "AWS_ERROR"), h.table, h.calls)
    ELSE View(Resp(500, "INTERNAL_ERROR"), h.table, h.calls)

\* lambda_handler(event, context)
lambda_handler(r, tbl, now) ==
    LET pm == get_path_method(r)
        route == LambdaRoute(pm)
        k == TodoId(pm[1])
    IN  CASE route = "preflight" -> View(Resp(204, ""), tbl, <<>>)
          [] route = "health" -> View(Resp(200, ""), tbl, <<>>)
          [] route = "create" -> Guarded(handle_create_todo(r, tbl, now))
          [] route = "list" -> Guarded(handle_list_todos(r, tbl))
          [] route = "get" -> Guarded(handle_get_todo(r, k, tbl))
          [] route = "update" -> Guarded(handle_update_todo(r, k, tbl, now))
          [] route = "delete" -> Guarded(handle_delete_todo(r, k, tbl))
          [] OTHER -> View(Resp(404, "ROUTE_NOT_FOUND"), tbl, <<>>)

----------------------------------------------------------------------------
(* Requests *)

\* A request with what the environment answers while it is handled; walker marks
\* the requests of the client that pages through GET /todos, worker the worker a
\* request in flight is held by (0: handled in one step). mint is the
\* id uuid4() returns, fault whether the table call raises a ClientError other than
\* a failed condition, lekAtEnd as in Scan, headOk / keysOk whether the key
\* endpoint answers requests.head / PyJWKClient.
BaseReq ==
    [method |-> "GET", path |-> <<"health">>, auth |-> NoAuth,
     headOk |-> TRUE, keysOk |-> TRUE, ct |-> CtNone, body |-> NoBody,
     limit |-> QAbsent, cursor |-> {}, mint |-> IdName[1], fault |-> FALSE,
     lekAtEnd |-> FALSE, evt |-> "rest", stage |-> "", rawPath |-> <<"health">>,
     walker |-> FALSE, worker |-> 0]

\* no request in flight
NoReq == [BaseReq EXCEPT !.method = ""]

NoResp == Resp(0, "")

\* the endpoint Flask's URL map gives a request (app.py 168, 174, 215, 292):
\* a rule matches a path of exactly its segments, <todo_id> a non-empty one
FlaskRoute(r) ==
    IF r.path = <<"health">>
    THEN IF r.method \in {"GET", "OPTIONS"} THEN "health" ELSE "405"
    ELSE IF r.path = <<"todos">>
    THEN IF r.method \in {"POST", "OPTIONS"} THEN "create_todo"
         ELSE IF r.method = "GET" THEN "list_todos" ELSE "405"
    ELSE IF Len(r.path) = 2 /\ r.path[1] = "todos" /\ r.path[2] # ""
    THEN IF r.method \in {"GET", "PUT", "DELETE", "OPTIONS"} THEN "todo_by_id" ELSE "405"
    ELSE "404"

\* the Flask app as a whole: the URL map, the wrapper of the three views behind
\* @require_auth, the view
flask_app(r, tbl, jc, jl, now) ==
    LET route == FlaskRoute(r)
        a == require_auth(r, jc, jl, now)
    IN  CASE route = "health" ->
                View(Resp(IF r.method = "OPTIONS" THEN 204 ELSE 200, ""), tbl, <<>>)
          [] route = "404" -> View(Resp(404, "ROUTE_NOT_FOUND"), tbl, <<>>)
          [] route = "405" -> View(Resp(405, ""), tbl, <<>>)
          [] route = "create_todo" ->
                IF a.resp.status # 0 THEN View(a.resp, tbl, a.calls)
                ELSE create_todo(r, tbl, now)
          [] route = "todo_by_id" ->
                IF a.resp.status # 0 THEN View(a.resp, tbl, a.calls)
                ELSE todo_by_id(r, r.path[2], tbl, now)
          [] OTHER ->
                IF a.resp.status # 0 THEN View(a.resp, tbl, a.calls)
                ELSE list_todos(r, tbl)

\* the id in the path the client asked for, /todos/{id}: {} for any other path
ReqId(r) == IF Len(r.path) = 2 /\ r.path[1] = "todos" THEN {r.path[2]} ELSE {}

ItemIds(items) == {it.id : it \in items}

\* a view behind @require_auth: the wrapper first, then the view
Authed(r, a, v) ==
    IF a.resp.status # 0 THEN Out(a.resp, table, a.calls, a.jc, a.jl)
    ELSE Out(v.resp, v.table, a.calls \o v.calls, a.jc, a.jl)

\* a handler of either deployment without the wrapper
Plain(v) == Out(v.resp, v.table, v.calls, jwks_client, jwks_last_init)

\* the workers that handle requests side by side (threads of the Flask app,
\* concurrent invocations of the handler)
Workers == 1..NumWorkers

\* a worker with no request
Idle == [busy |-> FALSE, req |-> NoReq, now |-> 0]

\* the threads of the Flask app that may be inside get_jwks_client()
Threads == 1..NumThreads

\* a thread that is not inside get_jwks_client(); pc names the statement it is at,
\* now is its local `now`, client and last_init the pair it read last
Outside == [pc |-> "out", now |-> 0, client |-> {}, last_init |-> 0]

\* the paging client reads a page: it keeps the ids and the nextCursor, and is done
\* when nextCursor is null
WalkOn(rsp) ==
    [walk EXCEPT !.seen = @ \o [i \in DOMAIN rsp.items |-> rsp.items[i].id],
                 !.cursor = rsp.nextCursor,
                 !.calls = @ + 1,
                 !.done = (rsp.nextCursor = {})]

\* the step that handles request r with outcome out
Handle(r, out) ==
    \E o \in {out} :
    /\ req' = r
    /\ resp' = o.resp
    /\ ops' = o.ops
    /\ prev' = table
    /\ table' = o.table
    /\ jwks_client' = o.jc
    /\ jwks_last_init' = o.jl
    /\ minted' = IF o.resp.status = 201 THEN minted \cup ItemIds(o.resp.item) ELSE minted
    /\ gone' = IF o.resp.status = 201 THEN gone \ ItemIds(o.resp.item)
               ELSE IF r.method = "DELETE" /\ o.resp.status = 204 THEN gone \cup ReqId(r)
               ELSE gone
    /\ walk' = IF r.walker THEN WalkOn(o.resp)
               ELSE IF walk.active /\ o.table # table THEN [walk EXCEPT !.dirty = TRUE]
               ELSE walk
    /\ fresh' = IF o.resp.status = 201
                THEN {it \in fresh : it.id \notin ItemIds(o.resp.item)} \cup o.resp.item
                ELSE IF r.method = "PUT" /\ o.resp.status = 200
                THEN {it \in fresh : it.id \notin ItemIds(o.resp.item)}
                ELSE IF r.method = "DELETE" /\ o.resp.status = 204
                THEN {it \in fresh : it.id \in ItemIds(o.table)}
                ELSE fresh
    /\ inflight' = IF r.worker = 0 THEN inflight ELSE [inflight EXCEPT ![r.worker] = Idle]
    /\ UNCHANGED <<shape, clock, callers>>

----------------------------------------------------------------------------
(* Actions: app.py *)

FlaskHealth(R) ==
    /\ req = NoReq
    /\ shape = "flask"
    /\ \E r \in R :
        /\ FlaskRoute(r) = "health"
        /\ Handle(r, Plain(View(Resp(IF r.method = "OPTIONS" THEN 204 ELSE 200, ""),
                                table, <<>>)))

FlaskCreateTodo(R) ==
    /\ req = NoReq
    /\ shape = "flask"
    /\ \E r \in R :
        /\ FlaskRoute(r) = "create_todo"
        /\ Handle(r, Authed(r, require_auth(r, jwks_client, jwks_last_init, clock),
                            create_todo(r, table, clock)))

FlaskTodoById(R) ==
    /\ req = NoReq
    /\ shape = "flask"
    /\ \E r \in R :
        /\ FlaskRoute(r) = "todo_by_id"
        /\ Handle(r, Authed(r, require_auth(r, jwks_client, jwks_last_init, clock),
                            todo_by_id(r, r.path[2], table, clock)))

FlaskListTodos(R) ==
    /\ req = NoReq
    /\ shape = "flask"
    /\ \E r \in R :
        /\ FlaskRoute(r) = "list_todos"
        /\ Handle(r, Authed(r, require_auth(r, jwks_client, jwks_last_init, clock),
                            list_todos(r, table)))

\* not_found(): the 404 error handler
FlaskNotFound(R) ==
    /\ req = NoReq
    /\ shape = "flask"
    /\ \E r \in R :
        /\ FlaskRoute(r) = "404"
        /\ Handle(r, Plain(View(Resp(404, "ROUTE_NOT_FOUND"), table, <<>>)))

\* a known path with a method its rules do not list: Werkzeug's own 405 page
FlaskMethodNotAllowed(R) ==
    /\ req = NoReq
    /\ shape = "flask"
    /\ \E r \in R :
        /\ FlaskRoute(r) = "405"
        /\ Handle(r, Plain(View(Resp(405, ""), table, <<>>)))

(* Actions: handler.py, one per route of lambda_handler *)

LambdaOn(R, route) ==
    /\ req = NoReq
    /\ shape = "lambda"
    /\ \E r \in R :
        /\ LambdaRoute(get_path_method(r)) = route
        /\ Handle(r, Plain(lambda_handler(r, table, clock)))

LambdaPreflight(R) == LambdaOn(R, "preflight")

LambdaHealth(R) == LambdaOn(R, "health")

LambdaCreateTodo(R) == LambdaOn(R, "create")

LambdaListTodos(R) == LambdaOn(R, "list")

LambdaGetTodo(R) == LambdaOn(R, "get")

LambdaUpdateTodo(R) == LambdaOn(R, "update")

LambdaDeleteTodo(R) == LambdaOn(R, "delete")

LambdaRouteNotFound(R) == LambdaOn(R, "not_found")

\* the response is sent: the request is over
Respond ==
    /\ req # NoReq
    /\ req' = NoReq
    /\ resp' = NoResp
    /\ ops' = <<>>
    /\ prev' = table
    /\ UNCHANGED <<shape, table, clock, jwks_client, jwks_last_init, minted, gone, walk,
                   fresh, inflight, callers>>

\* the wall clock advances
Tick ==
    /\ req = NoReq
    /\ clock < MaxClock
    /\ clock' = clock + 1
    /\ UNCHANGED <<shape, table, jwks_client, jwks_last_init, req, resp, ops, prev,
                   minted, gone, walk, fresh, inflight, callers>>

NoWalk == [active |-> FALSE, limit |-> QAbsent, cursor |-> {}, seen |-> <<>>,
           calls |-> 0, done |-> FALSE, dirty |-> FALSE]

Init ==
    /\ shape \in {"flask", "lambda"}
    /\ table = {}
    /\ clock = 0
    /\ jwks_client = {}
    /\ jwks_last_init = 0
    /\ req = NoReq
    /\ resp = NoResp
    /\ ops = <<>>
    /\ prev = {}
    /\ minted = {}
    /\ gone = {}
    /\ walk = NoWalk
    /\ fresh = {}
    /\ inflight = [w \in Workers |-> Idle]
    /\ callers = [t \in Threads |-> Outside]

----------------------------------------------------------------------------
(* The requests the clients send *)

Rq(method, path) == [BaseReq EXCEPT !.method = method, !.path = path, !.rawPath = path]

\* with a valid token of alice
A(r) == [r EXCEPT !.auth = Bearer(TokAlice)]

Titles == {JAbsent, JNum, JStr(<<" ", " ">>), JStr(<<" ", "a", " ">>), JStr(<<"b">>)}

Dues == {DAbsent, DNull, DStr("2024-01-01T00:00:00Z"), DStr("not-a-date")}

Bodies == {BadJson, NoBody} \cup {Obj(t, d) : t \in Titles, d \in Dues}

GoodBody == Obj(JStr(<<"b">>), DAbsent)

\* the attributes update must never write, as members of a body
FrozenKeys == {"id", "createdAt", "ownerSub", "ownerUsername"}

\* bodies with members other than title and dueDate
BodiesWithOthers ==
    {Body("object", t, DAbsent, FrozenKeys, {}, FALSE) : t \in {JAbsent, JStr(<<"b">>)}}

IdPaths == {<<"todos", k>> : k \in Ids}

CreateReqs ==
    {[A(Rq("POST", <<"todos">>)) EXCEPT !.ct = CtJson, !.body = b, !.mint = m] :
        b \in Bodies, m \in Ids}
    \cup {[A(Rq("POST", <<"todos">>)) EXCEPT !.ct = CtJson, !.body = GoodBody,
                                             !.mint = m, !.fault = TRUE] : m \in Ids}
    \cup {[A(Rq("POST", <<"todos">>)) EXCEPT !.ct = c, !.body = GoodBody] :
        c \in {CtText, CtNone, CtJsonCharset}}

UpdateReqs ==
    {[A(Rq("PUT", p)) EXCEPT !.ct = CtJson, !.body = b] : p \in IdPaths, b \in Bodies}
    \cup {[A(Rq("PUT", p)) EXCEPT !.ct = CtJson, !.body = GoodBody, !.fault = TRUE] :
        p \in IdPaths}
    \cup {[A(Rq("PUT", p)) EXCEPT !.ct = CtText, !.body = GoodBody] : p \in IdPaths}
    \cup {[Rq("PUT", p) EXCEPT !.auth = Bearer(a), !.ct = CtJson, !.body = b, !.fault = f] :
            p \in IdPaths, a \in {TokAlice, TokBob}, b \in BodiesWithOthers, f \in BOOLEAN}

GetReqs == {[A(Rq("GET", p)) EXCEPT !.fault = f] : p \in IdPaths, f \in BOOLEAN}

DeleteReqs == {[A(Rq("DELETE", p)) EXCEPT !.fault = f] : p \in IdPaths, f \in BOOLEAN}

ListReqs ==
    {[A(Rq("GET", <<"todos">>)) EXCEPT !.limit = l, !.cursor = c, !.lekAtEnd = e] :
        l \in {QAbsent, QInt(1)}, c \in {{}, {IdName[1]}}, e \in BOOLEAN}
    \cup {[A(Rq("GET", <<"todos">>)) EXCEPT !.fault = TRUE]}

OptionsReqs ==
    {[Rq("OPTIONS", p) EXCEPT !.auth = a] :
        p \in {<<"todos">>, <<"todos", IdName[1]>>, <<"health">>, <<"other">>},
        a \in {NoAuth, Bearer(TokAlice)}}

OtherReqs ==
    {Rq("GET", <<"health">>), A(Rq("GET", <<"other">>)), A(Rq("DELETE", <<"todos">>)),
     A(Rq("GET", <<"todos", "a", IdName[1]>>)), A(Rq("POST", <<"todos", IdName[1]>>))}

\* the routes behind authentication, sent without a token that verifies
BadAuths == {NoAuth, BasicAuth, Bearer(TokExpired), Bearer(TokBadSig)}

UnauthReqs ==
    {[r EXCEPT !.auth = a] :
        r \in {[Rq("POST", <<"todos">>) EXCEPT !.ct = CtJson, !.body = GoodBody],
               Rq("GET", <<"todos">>)}
              \cup {Rq(m, p) : m \in {"GET", "DELETE"}, p \in IdPaths}
              \cup {[Rq("PUT", p) EXCEPT !.ct = CtJson, !.body = GoodBody] : p \in IdPaths},
        a \in BadAuths}

CrudReqs ==
    CreateReqs \cup UpdateReqs \cup GetReqs \cup DeleteReqs \cup ListReqs
    \cup OptionsReqs \cup OtherReqs \cup UnauthReqs

FlaskReqs == CrudReqs

\* the same requests as API Gateway events: REST v1, and for the id routes also
\* HTTP API v2 with a routeKey or with "$default" and a stage prefix
AsRouteKey(r) == [r EXCEPT !.evt = "routeKey"]

AsRawPath(r) == [r EXCEPT !.evt = "rawPath", !.stage = "prod", !.rawPath = <<"prod">> \o r.path]

EventReqs ==
    LET rs == {[A(Rq("PUT", p)) EXCEPT !.ct = CtJson, !.body = GoodBody] : p \in IdPaths}
              \cup {A(Rq(m, p)) : m \in {"GET", "DELETE"}, p \in IdPaths}
    IN  {AsRouteKey(r) : r \in rs} \cup {AsRawPath(r) : r \in rs}

LambdaReqs == CrudReqs \cup EventReqs

----------------------------------------------------------------------------
Next ==
    \/ FlaskHealth(FlaskReqs)
    \/ FlaskCreateTodo(FlaskReqs)
    \/ FlaskTodoById(FlaskReqs)
    \/ FlaskListTodos(FlaskReqs)
    \/ FlaskNotFound(FlaskReqs)
    \/ FlaskMethodNotAllowed(FlaskReqs)
    \/ LambdaPreflight(LambdaReqs)
    \/ LambdaHealth(LambdaReqs)
    \/ LambdaCreateTodo(LambdaReqs)
    \/ LambdaListTodos(LambdaReqs)
    \/ LambdaGetTodo(LambdaReqs)
    \/ LambdaUpdateTodo(LambdaReqs)
    \/ LambdaDeleteTodo(LambdaReqs)
    \/ LambdaRouteNotFound(LambdaReqs)
    \/ Respond
    \/ Tick

Spec == Init /\ [][Next]_vars

----------------------------------------------------------------------------
(* Paging through GET /todos *)

ListIds == {IdName[i] : i \in 1..NumListIds}

\* the limits the paging client asks for: 1..MaxWalkLimit and the largest
WalkLimits == (1..MaxWalkLimit) \cup {MaxPageSize}

\* a client starts paging with limit L and no cursor
WalkStart ==
    /\ req = NoReq
    /\ ~walk.active \/ walk.done
    /\ \E L \in WalkLimits :
          walk' = [active |-> TRUE, limit |-> QInt(L), cursor |-> {}, seen |-> <<>>,
                   calls |-> 0, done |-> FALSE, dirty |-> FALSE]
    /\ UNCHANGED <<shape, table, clock, jwks_client, jwks_last_init, req, resp, ops, prev,
                   minted, gone, fresh, inflight, callers>>

\* its next request: the same limit, the nextCursor of the page before as cursor
WalkReqs ==
    IF walk.active /\ ~walk.done
    THEN {[A(Rq("GET", <<"todos">>)) EXCEPT !.limit = walk.limit, !.cursor = walk.cursor,
                                            !.lekAtEnd = e, !.walker = TRUE] :
            e \in BOOLEAN}
    ELSE {}

\* GET /todos with the limits a client may write
LimitReqs ==
    {[A(Rq("GET", <<"todos">>)) EXCEPT !.limit = l, !.fault = f] :
        l \in {QAbsent, QEmpty, QNonInt, QInt(0 - 5), QInt(0), QInt(1), QInt(2),
               QInt(DEFAULT_PAGE_SIZE), QInt(MaxPageSize), QInt(MaxPageSize + 1),
               QInt(9999)},
        f \in BOOLEAN}

\* the requests that fill and empty the table
SeedReqs ==
    {[A(Rq("POST", <<"todos">>)) EXCEPT !.ct = CtJson, !.body = GoodBody, !.mint = m] :
        m \in ListIds}
    \cup {A(Rq("DELETE", <<"todos", k>>)) : k \in ListIds}

NextList ==
    \/ FlaskCreateTodo(SeedReqs)
    \/ FlaskTodoById(SeedReqs)
    \/ FlaskListTodos(LimitReqs \cup WalkReqs)
    \/ LambdaCreateTodo(SeedReqs)
    \/ LambdaDeleteTodo(SeedReqs)
    \/ LambdaListTodos(LimitReqs \cup WalkReqs)
    \/ WalkStart
    \/ Respond

SpecList == Init /\ [][NextList]_vars

----------------------------------------------------------------------------
(* Titles of every shape around the length limit *)

TitleStrings ==
    {Rep(" ", l) \o Rep("a", c) \o Rep(" ", t) :
        l \in 0..MaxPad, t \in 0..MaxPad,
        c \in {0, 1, MAX_TITLE_LEN - 2, MAX_TITLE_LEN - 1, MAX_TITLE_LEN, MAX_TITLE_LEN + 1}}
    \cup {Rep(" ", MAX_TITLE_LEN + 1), <<"a", " ", "b">>, <<"\t", "a", " ", "b", "\n">>,
          Rep("a", MAX_TITLE_LEN - 1) \o <<" ", "b">>}

TitleReqs ==
    {[A(Rq("POST", <<"todos">>)) EXCEPT !.ct = CtJson, !.body = Obj(JStr(s), d),
                                        !.mint = m, !.fault = f] :
        s \in TitleStrings, d \in {DAbsent},
        m \in Ids, f \in BOOLEAN}

NextTitle ==
    \/ FlaskCreateTodo(TitleReqs)
    \/ LambdaCreateTodo(TitleReqs)
    \/ Respond

SpecTitle == Init /\ [][NextTitle]_vars

----------------------------------------------------------------------------
(* Token verification against a key endpoint that may not answer *)

\* a token signed with a key that is not in the key set
TokNoKid == [TokAlice EXCEPT !.name = "nokid", !.kidKnown = FALSE]

\* the wall clock passes the TTL of the cached key-set client
Expire ==
    /\ req = NoReq
    /\ clock <= MaxClock
    /\ clock' = clock + JWKS_TTL_SECONDS + 1
    /\ UNCHANGED <<shape, table, jwks_client, jwks_last_init, req, resp, ops, prev,
                   minted, gone, walk, fresh, inflight, callers>>

\* requests to the routes behind authentication, with every kind of token, while
\* the key endpoint answers requests.head (headOk) and PyJWKClient (keysOk) or not
AuthReqs ==
    {[r EXCEPT !.auth = Bearer(tok), !.headOk = h, !.keysOk = k] :
        r \in {[Rq("POST", <<"todos">>) EXCEPT !.ct = CtJson, !.body = GoodBody],
               Rq("GET", <<"todos">>),
               Rq("GET", <<"todos", IdName[1]>>),
               [Rq("PUT", <<"todos", IdName[1]>>) EXCEPT !.ct = CtJson, !.body = GoodBody],
               Rq("DELETE", <<"todos", IdName[1]>>)},
        tok \in {TokAlice, TokExpired, TokBadSig, TokGarbage, TokNoKid},
        h \in BOOLEAN, k \in BOOLEAN}

NextAuth ==
    \/ FlaskCreateTodo(AuthReqs)
    \/ FlaskTodoById(AuthReqs)
    \/ FlaskListTodos(AuthReqs)
    \/ LambdaCreateTodo(AuthReqs)
    \/ LambdaListTodos(AuthReqs)
    \/ LambdaGetTodo(AuthReqs)
    \/ LambdaUpdateTodo(AuthReqs)
    \/ LambdaDeleteTodo(AuthReqs)
    \/ Respond
    \/ Tick
    \/ Expire

SpecAuth == Init /\ [][NextAuth]_vars

----------------------------------------------------------------------------
(* A sequence of token verifications while the cached key-set client ages *)

\* the wall clock advances by exactly the TTL
Lapse ==
    /\ req = NoReq
    /\ clock <= MaxClock + JWKS_TTL_SECONDS + 1
    /\ clock' = clock + JWKS_TTL_SECONDS
    /\ UNCHANGED <<shape, table, jwks_client, jwks_last_init, req, resp, ops, prev,
                   minted, gone, walk, fresh, inflight, callers>>

\* requests to the routes behind authentication, one after the other, with and
\* without a bearer token, while the key endpoint answers requests.head or not
TtlReqs ==
    {[r EXCEPT !.auth = a, !.headOk = h] :
        r \in {[Rq("POST", <<"todos">>) EXCEPT !.ct = CtJson, !.body = GoodBody],
               Rq("GET", <<"todos">>),
               Rq("GET", <<"todos", IdName[1]>>),
               Rq("DELETE", <<"todos", IdName[1]>>)},
        a \in {NoAuth, Bearer(TokAlice), Bearer(TokExpired), Bearer(TokGarbage)},
        h \in BOOLEAN}

NextTtl ==
    \/ FlaskCreateTodo(TtlReqs)
    \/ FlaskTodoById(TtlReqs)
    \/ FlaskListTodos(TtlReqs)
    \/ Respond
    \/ Tick
    \/ Expire
    \/ Lapse

SpecTtl == Init /\ [][NextTtl]_vars

----------------------------------------------------------------------------
(* Bodies that are JSON but not an object *)

\* a body that parses to a list, a str, a number or a bool
Val(kind, has, empty) == Body(kind, JAbsent, DAbsent, {}, has, empty)

\* null; [], ["x"], ["title"], ["dueDate"]; "", "x", "my title"; 0, 1; false, true
NonObjectBodies ==
    {Val("null", {}, TRUE)}
    \cup {Val("array", {}, TRUE), Val("array", {}, FALSE),
          Val("array", {"title"}, FALSE), Val("array", {"dueDate"}, FALSE)}
    \cup {Val("string", {}, TRUE), Val("string", {}, FALSE), Val("string", {"title"}, FALSE)}
    \cup {Val(k, {}, e) : k \in {"number", "boolean"}, e \in BOOLEAN}

\* POST /todos and PUT /todos/{id} with a JSON content type and such a body, next
\* to creates and updates that store something
BodyReqs ==
    {[A(Rq("POST", <<"todos">>)) EXCEPT !.ct = c, !.body = b, !.mint = m] :
        c \in {CtJson, CtJsonCharset}, b \in NonObjectBodies \cup {GoodBody}, m \in Ids}
    \cup {[A(Rq("PUT", p)) EXCEPT !.ct = c, !.body = b] :
        c \in {CtJson, CtJsonCharset}, b \in NonObjectBodies \cup {GoodBody},
        p \in IdPaths}

NextBody ==
    \/ FlaskCreateTodo(BodyReqs)
    \/ FlaskTodoById(BodyReqs)
    \/ LambdaCreateTodo(BodyReqs)
    \/ LambdaUpdateTodo(BodyReqs)
    \/ Respond
    \/ Tick

SpecBody == Init /\ [][NextBody]_vars

----------------------------------------------------------------------------
(* Requests handled side by side.  A worker reads its request, validates it and
   reads the clock (now_iso()) first; its one table call comes later, and the
   table calls of the workers reach DynamoDB in any order. *)

\* create, update and delete on the same few ids, with titles to trim and to reject
RaceReqs ==
    {[A(Rq("POST", <<"todos">>)) EXCEPT !.ct = CtJson, !.mint = m,
                                        !.body = Obj(JStr(<<" ", "a", " ">>), DAbsent)] :
        m \in Ids}
    \cup {[A(Rq("POST", <<"todos">>)) EXCEPT !.ct = CtJson,
                                             !.body = Obj(JStr(<<" ", "\t">>), DAbsent)]}
    \cup {[A(Rq("PUT", p)) EXCEPT !.ct = CtJson, !.body = Obj(JStr(<<"b", " ">>), DAbsent)] :
            p \in IdPaths}
    \cup {[A(Rq("PUT", <<"todos", IdName[1]>>)) EXCEPT !.ct = CtJson, !.body = Obj(t, DAbsent)] :
            t \in {JStr(<<" ">> \o Rep("a", MAX_TITLE_LEN - 1)),
                   JStr(Rep("a", MAX_TITLE_LEN + 1))}}
    \cup {A(Rq("DELETE", p)) : p \in IdPaths}

\* a worker takes a request: the handler runs up to its table call
RaceBegin ==
    /\ req = NoReq
    /\ \E w \in Workers :
        /\ ~inflight[w].busy
        /\ \E r \in RaceReqs :
              inflight' = [inflight EXCEPT ![w] = [busy |-> TRUE, req |-> r, now |-> clock]]
        /\ UNCHANGED <<shape, table, clock, jwks_client, jwks_last_init, req, resp, ops,
                       prev, minted, gone, walk, fresh, callers>>

\* the rest of the Flask view of a worker: the table call with the timestamp read
\* before, and the response
FlaskCommit ==
    /\ req = NoReq
    /\ shape = "flask"
    /\ \E w \in Workers :
        /\ inflight[w].busy
        /\ \E r \in {[inflight[w].req EXCEPT !.worker = w]} :
              Handle(r, Authed(r, require_auth(r, jwks_client, jwks_last_init, inflight[w].now),
                               IF FlaskRoute(r) = "create_todo"
                               THEN create_todo(r, table, inflight[w].now)
                               ELSE todo_by_id(r, r.path[2], table, inflight[w].now)))

\* the same for an invocation of lambda_handler
LambdaCommit ==
    /\ req = NoReq
    /\ shape = "lambda"
    /\ \E w \in Workers :
        /\ inflight[w].busy
        /\ \E r \in {[inflight[w].req EXCEPT !.worker = w]} :
              Handle(r, Plain(lambda_handler(r, table, inflight[w].now)))

NextRace ==
    \/ RaceBegin
    \/ FlaskCommit
    \/ LambdaCommit
    \/ Respond
    \/ Tick

SpecRace == Init /\ [][NextRace]_vars

----------------------------------------------------------------------------
(* get_jwks_client() statement by statement, called by the threads of the Flask
   app.  The module globals _jwks_client and _jwks_last_init are shared and no
   lock is taken. *)

JwksUnchanged == UNCHANGED <<shape, table, clock, req, resp, ops, prev, minted, gone,
                             walk, fresh, inflight>>

\* now = time.time()
JwksEnter ==
    /\ shape = "flask"
    /\ \E t \in Threads :
        /\ callers[t].pc = "out"
        /\ callers' = [callers EXCEPT ![t] = [Outside EXCEPT !.pc = "if", !.now = clock]]
    /\ UNCHANGED <<jwks_client, jwks_last_init>>
    /\ JwksUnchanged

\* if _jwks_client is None or (now - _jwks_last_init) > _JWKS_TTL_SECONDS:
\* the thread reads the two globals
JwksTest ==
    /\ \E t \in Threads :
        /\ callers[t].pc = "if"
        /\ callers' = [callers EXCEPT
              ![t].client = jwks_client,
              ![t].last_init = jwks_last_init,
              ![t].pc = IF jwks_client = {}
                           \/ (callers[t].now - jwks_last_init) > JWKS_TTL_SECONDS
                        THEN "head" ELSE "return"]
    /\ UNCHANGED <<jwks_client, jwks_last_init>>
    /\ JwksUnchanged

\* requests.head(COGNITO_JWKS_URL, timeout=5): returns, or raises RequestException
JwksHead ==
    /\ \E t \in Threads :
        /\ callers[t].pc = "head"
        /\ \E ok \in BOOLEAN :
              callers' = [callers EXCEPT ![t] = IF ok THEN [@ EXCEPT !.pc = "client"]
                                                ELSE Outside]
    /\ UNCHANGED <<jwks_client, jwks_last_init>>
    /\ JwksUnchanged

\* _jwks_client = PyJWKClient(COGNITO_JWKS_URL)
JwksSetClient ==
    /\ \E t \in Threads :
        /\ callers[t].pc = "client"
        /\ jwks_client' = {callers[t].now}
        /\ callers' = [callers EXCEPT ![t].pc = "last_init"]
    /\ UNCHANGED jwks_last_init
    /\ JwksUnchanged

\* _jwks_last_init = now
JwksSetLastInit ==
    /\ \E t \in Threads :
        /\ callers[t].pc = "last_init"
        /\ jwks_last_init' = callers[t].now
        /\ callers' = [callers EXCEPT ![t].pc = "return"]
    /\ UNCHANGED jwks_client
    /\ JwksUnchanged

\* return _jwks_client
JwksReturn ==
    /\ \E t \in Threads :
        /\ callers[t].pc = "return"
        /\ callers' = [callers EXCEPT ![t] = Outside]
    /\ UNCHANGED <<jwks_client, jwks_last_init>>
    /\ JwksUnchanged

NextJwks ==
    \/ JwksEnter
    \/ JwksTest
    \/ JwksHead
    \/ JwksSetClient
    \/ JwksSetLastInit
    \/ JwksReturn
    \/ Tick
    \/ Expire

SpecJwks == Init /\ [][NextJwks]_vars

----------------------------------------------------------------------------
(* What a client sends and sees, for the properties below *)

\* a request has been handled and its response is on the way
Handled == req # NoReq

\* the request carries a token the identity provider issued and that is in force,
\* and the key endpoint answers
Authenticated(r) ==
    /\ r.auth.scheme = "Bearer"
    /\ r.auth.token.name \in {"alice", "bob"}
    /\ r.headOk
    /\ r.keysOk

\* handler.py has no authentication step
PassesGate(r) == shape = "lambda" \/ Authenticated(r)

\* POST /todos, GET /todos, GET|PUT|DELETE /todos/{id}
Protected(r) ==
    \/ r.path = <<"todos">> /\ r.method \in {"POST", "GET"}
    \/ ReqId(r) # {} /\ ReqId(r) # {""} /\ r.method \in {"GET", "PUT", "DELETE"}

StoreCalls == {i \in DOMAIN ops : ops[i].op \in StoreOps}

VerifierCalls == {i \in DOMAIN ops : ops[i].op = "decode_and_verify"}

\* a title the data model allows
GoodTitle(val) ==
    /\ val.t = "str"
    /\ \E i \in DOMAIN val.v : ~IsSpace(val.v[i])
    /\ Len(val.v) <= MAX_TITLE_LEN

\* a dueDate the data model allows
GoodDue(val) ==
    \/ val.t = "null"
    \/ val.t = "str" /\ val.v \in {"2024-01-01T00:00:00Z", "2025-01-01T00:00:00Z",
                                   "2024-01-01T00:00:00+00:00", "2025-01-01T00:00:00+00:00"}

\* POST /todos that passes authentication and validation
ValidCreate(r) ==
    /\ r.method = "POST" /\ r.path = <<"todos">>
    /\ PassesGate(r)
    /\ r.ct \in {CtJson, CtJsonCharset}
    /\ r.body.kind = "object"
    /\ GoodTitle(r.body.title)
    /\ r.body.dueDate.t = "absent" \/ GoodDue(r.body.dueDate)

\* PUT /todos/{id} that passes authentication and validation
ValidPut(r) ==
    /\ r.method = "PUT" /\ ReqId(r) # {}
    /\ PassesGate(r)
    /\ r.ct \in {CtJson, CtJsonCharset}
    /\ r.body.kind = "object"
    /\ r.body.title.t # "absent" \/ r.body.dueDate.t # "absent"
    /\ r.body.title.t = "absent" \/ GoodTitle(r.body.title)
    /\ r.body.dueDate.t = "absent" \/ GoodDue(r.body.dueDate)

----------------------------------------------------------------------------
(* C1: in both deployments, a request to POST /todos, GET /todos or
   GET|PUT|DELETE /todos/{id} without an Authorization header is answered
   401 UNAUTHORIZED, one with an expired but otherwise valid token
   401 TOKEN_EXPIRED, and in neither case is the table read or written. *)
C1_AuthGate ==
    (Handled /\ Protected(req)) =>
        /\ req.auth = NoAuth =>
              resp.status = 401 /\ resp.code = "UNAUTHORIZED" /\ StoreCalls = {}
        /\ req.auth = Bearer(TokExpired) =>
              resp.status = 401 /\ resp.code = "TOKEN_EXPIRED" /\ StoreCalls = {}

(* C2: once DELETE /todos/{id} has returned 204, a GET of that id with no create
   of it in between returns 404 NOT_FOUND (given it passes authentication and the
   table answers); DELETE of an id that is not in the table returns 404 NOT_FOUND,
   never 204, and leaves the table as it was. *)
C2_DeleteThenGet ==
    Handled =>
        \A k \in ReqId(req) :
            /\ (req.method = "DELETE" /\ resp.status = 204) => ~HasKey(table, k)
            /\ (req.method = "GET" /\ k \in gone) =>
                  /\ resp.status # 200
                  /\ (PassesGate(req) /\ ~req.fault) => resp = Resp(404, "NOT_FOUND")
            /\ (req.method = "DELETE" /\ ~HasKey(prev, k)) =>
                  /\ resp.status # 204
                  /\ table = prev
                  /\ (PassesGate(req) /\ ~req.fault) => resp = Resp(404, "NOT_FOUND")

C2_Witness ==
    /\ Handled /\ req.method = "GET" /\ PassesGate(req) /\ ~req.fault
    /\ ReqId(req) # {} /\ ReqId(req) \subseteq gone
    /\ resp = Resp(404, "NOT_FOUND")

(* C3: a valid PUT /todos/{id} on an id that is not in the table returns
   404 NOT_FOUND and leaves the table as it was; no item ever exists whose id
   was not returned by a successful create. *)
C3_UpdateNeverCreates ==
    /\ ItemIds(table) \subseteq minted
    /\ (Handled /\ ValidPut(req)) =>
          \A k \in ReqId(req) :
              ~HasKey(prev, k) =>
                  /\ table = prev
                  /\ ~req.fault => resp = Resp(404, "NOT_FOUND")

C3_Witness ==
    /\ Handled /\ ValidPut(req) /\ ~req.fault
    /\ \A k \in ReqId(req) : ~HasKey(prev, k)
    /\ prev # {}
    /\ resp = Resp(404, "NOT_FOUND")

(* C4: a successful update changes only the members the body supplies and
   updatedAt: a body with only title leaves dueDate as it was, a body with only
   dueDate leaves title as it was, every other attribute and every other item is
   untouched, and the 200 response is the whole item after the update. *)
C4_UpdateIsPartial ==
    (Handled /\ req.method = "PUT" /\ resp.status = 200) =>
        \A k \in ReqId(req) :
            \E old \in prev, new \in table :
                /\ old.id = k /\ new.id = k
                /\ table \ {new} = prev \ {old}
                /\ resp.item = {new}
                /\ DOMAIN new = DOMAIN old
                /\ new.title = IF req.body.title.t = "absent" THEN old.title
                               ELSE Strip(req.body.title.v)
                /\ new.dueDate = IF req.body.dueDate.t = "absent" THEN old.dueDate
                                 ELSE req.body.dueDate
                /\ new.updatedAt = clock /\ new.updatedAt >= old.updatedAt
                /\ \A f \in DOMAIN old \ {"title", "dueDate", "updatedAt"} : new[f] = old[f]

C4_Witness ==
    /\ Handled /\ req.method = "PUT" /\ resp.status = 200
    /\ req.body.title.t = "str" /\ req.body.dueDate.t = "absent"
    /\ \E old \in prev, new \in table :
          /\ old.id = new.id /\ ReqId(req) = {new.id}
          /\ old.title # new.title
          /\ new.dueDate.t = "str"
          /\ new.updatedAt > old.updatedAt

(* C5: when the id create mints is already in the table, create returns
   409 CONFLICT and the item that holds the id is left as it was; ids are unique
   among the items of the table. *)
C5_CreateConflict ==
    /\ \A a, b \in table : a.id = b.id => a = b
    /\ (Handled /\ ValidCreate(req) /\ HasKey(prev, req.mint)) =>
          /\ table = prev
          /\ ~req.fault => resp = Resp(409, "CONFLICT")

C5_Witness ==
    /\ Handled /\ ValidCreate(req) /\ HasKey(prev, req.mint) /\ ~req.fault
    /\ Cardinality(table) = 2
    /\ resp = Resp(409, "CONFLICT")

\* the elements of a sequence
Range(q) == {q[i] : i \in DOMAIN q}

(* C6: with no mutation of the table meanwhile, for every limit the calls of
   GET /todos that start with no cursor and pass each nextCursor on as the next
   cursor return every stored item exactly once and end, after at most one call
   more than there are items, with a response whose nextCursor is null. *)
C6_PagingVisitsAllOnce ==
    (walk.active /\ ~walk.dirty) =>
        /\ \A i, j \in DOMAIN walk.seen : walk.seen[i] = walk.seen[j] => i = j
        /\ Range(walk.seen) \subseteq ItemIds(table)
        /\ walk.calls <= Cardinality(table) + 1
        /\ walk.done <=> (walk.calls > 0 /\ walk.cursor = {})
        /\ walk.done => Range(walk.seen) = ItemIds(table)

C6_Witness ==
    /\ walk.active /\ ~walk.dirty /\ walk.done
    /\ walk.limit = QInt(2)
    /\ walk.calls = 2
    /\ Len(walk.seen) = 3

\* s is only whitespace
Blank(s) == \A i \in DOMAIN s : IsSpace(s[i])

\* t is s without its leading and trailing whitespace
IsTrimOf(t, s) ==
    /\ t = <<>> \/ (~IsSpace(t[1]) /\ ~IsSpace(t[Len(t)]))
    /\ \E l \in 0..Len(s) :
          /\ l + Len(t) <= Len(s)
          /\ \A i \in 1..Len(t) : s[l + i] = t[i]
          /\ \A i \in 1..Len(s) : (i <= l \/ i > l + Len(t)) => IsSpace(s[i])

\* POST /todos that is valid but for what its title string may be
CreateWithTitle(r) ==
    /\ r.method = "POST" /\ r.path = <<"todos">>
    /\ PassesGate(r)
    /\ r.ct \in {CtJson, CtJsonCharset}
    /\ r.body.kind = "object"
    /\ r.body.title.t = "str"
    /\ r.body.dueDate.t = "absent" \/ GoodDue(r.body.dueDate)

(* C7: for every string s given as title in an otherwise valid create, create
   succeeds (201, the item stored with the trimmed s as title) exactly when the
   trimmed s is not empty and len(s) <= 140, the table answering and the minted id
   being new; a whitespace-only title is rejected with 400 MISSING_TITLE, a longer
   one with 400 TITLE_TOO_LONG, and a rejection leaves the table as it was. *)
C7_TitleValidation ==
    (Handled /\ CreateWithTitle(req)) =>
        LET s == req.body.title.v
            ok == ~Blank(s) /\ Len(s) <= MAX_TITLE_LEN
        IN  /\ resp.status = 201 => ok
            /\ (ok /\ ~req.fault /\ ~HasKey(prev, req.mint)) =>
                  /\ resp.status = 201
                  /\ \E it \in table :
                        /\ it.id = req.mint
                        /\ IsTrimOf(it.title, s)
                        /\ resp.item = {it}
                        /\ table = prev \cup {it}
            /\ Blank(s) => (resp = Resp(400, "MISSING_TITLE") /\ table = prev)
            /\ (~Blank(s) /\ Len(s) > MAX_TITLE_LEN) =>
                  (resp = Resp(400, "TITLE_TOO_LONG") /\ table = prev)
            /\ resp.status # 201 => table = prev

C7_Witness ==
    /\ Handled /\ CreateWithTitle(req)
    /\ Len(req.body.title.v) = MAX_TITLE_LEN
    /\ resp.status = 201
    /\ \E it \in table : it.id = req.mint /\ Len(it.title) = MAX_TITLE_LEN - 2

(* C8: the page size list uses is 20 when the limit parameter is absent and
   min(100, max(1, n)) when it parses as the integer n, without rejection; a limit
   that is not an integer is rejected with 400 INVALID_LIMIT and the table is not
   scanned. *)
C8_PageLimit ==
    (Handled /\ req.method = "GET" /\ req.path = <<"todos">> /\ PassesGate(req)) =>
        LET scanned(n) == /\ StoreCalls # {}
                          /\ \A i \in StoreCalls : ops[i].op = "scan" /\ ops[i].limit = n
                          /\ resp.status # 400
        IN  CASE req.limit.t = "absent" -> scanned(20)
              [] req.limit.t = "int" ->
                    scanned(IF req.limit.n < 1 THEN 1
                            ELSE IF req.limit.n > 100 THEN 100 ELSE req.limit.n)
              [] OTHER -> resp = Resp(400, "INVALID_LIMIT") /\ StoreCalls = {}

(* C9: an OPTIONS request to any path is answered with an empty 204, with or
   without an Authorization header, without the token verifier being called and
   without a call to the table. *)
C9_PreflightBypass ==
    (Handled /\ req.method = "OPTIONS") =>
        /\ resp = Resp(204, "")
        /\ VerifierCalls = {}
        /\ StoreCalls = {}

(* C10: for each of create, get, list, update and delete, a fault of the
   table other than a failed condition produces 502 AWS_ERROR. *)
C10_FaultIs502 ==
    \A i \in StoreCalls :
        ops[i].res = "ClientError" => resp.status = 502 /\ resp.code = "AWS_ERROR"

(* C11: GET /todos/{id} and GET /todos leave the table as it was, and as long as
   no update or delete of its id has succeeded, the record a successful create
   returned is stored unchanged and every get of its id that reaches the table
   returns 200 with exactly that record. *)
C11_ReadsAreStable ==
    /\ fresh \subseteq table
    /\ (Handled /\ req.method = "GET") => table = prev
    /\ Handled =>
          \A i \in StoreCalls :
              (ops[i].op = "get_item" /\ ops[i].res = "") =>
                  \A it \in fresh : it.id = ops[i].key => resp = RespItem(200, {it})

C11_Witness ==
    /\ Handled /\ req.method = "GET" /\ resp.status = 200
    /\ resp.item # {} /\ resp.item \subseteq fresh
    /\ \E it \in resp.item : it.updatedAt < clock
    /\ \E other \in table : other \notin fresh

(* C12: a request with a valid token whose method and path are none of
   POST /todos, GET /todos and GET|PUT|DELETE /todos/{id}, {id} one path segment,
   (nor the preflight or the health check) is answered 404 ROUTE_NOT_FOUND and makes
   no call to the table; so are /todos/a/b and an unsupported method on /todos/{id}. *)
C12_UnknownRoute ==
    (/\ Handled
     /\ Authenticated(req)
     /\ ~Protected(req)
     /\ req.method # "OPTIONS"
     /\ ~(req.method = "GET" /\ req.path = <<"health">>)) =>
        /\ resp = Resp(404, "ROUTE_NOT_FOUND")
        /\ StoreCalls = {}

\* PUT /todos/{id} with a JSON object that has neither title nor dueDate
NoFieldsPut(r) ==
    /\ r.method = "PUT" /\ ReqId(r) # {}
    /\ PassesGate(r)
    /\ r.ct \in {CtJson, CtJsonCharset}
    /\ r.body.kind = "object"
    /\ r.body.title.t = "absent" /\ r.body.dueDate.t = "absent"

(* C13: PUT /todos/{id} whose JSON object supplies neither title nor dueDate is
   answered 400 NO_MUTABLE_FIELDS with no call to the table, whether or not the id
   is stored (an absent id gets 400, not 404), and the table is left as it was. *)
C13_NoMutableFields ==
    (Handled /\ NoFieldsPut(req)) =>
        /\ resp = Resp(400, "NO_MUTABLE_FIELDS")
        /\ StoreCalls = {}
        /\ table = prev

C13_Witness ==
    /\ Handled /\ NoFieldsPut(req)
    /\ req.body.others # {}
    /\ \A k \in ReqId(req) : ~HasKey(prev, k)
    /\ prev # {}
    /\ resp = Resp(400, "NO_MUTABLE_FIELDS")

(* C14: when the key set cannot be fetched from the identity provider while a
   token is verified, the response is 502 JWKS_FETCH_FAILED, not 401 and not 500,
   whatever the token holds, and the route's table call is not made. *)
C14_KeySetUnavailable ==
    Handled =>
        \A i \in VerifierCalls :
            (\/ ops[i].res = "RequestException"
             \/ ops[i].res = "PyJWKClientError" /\ ~req.keysOk) =>
                /\ resp = Resp(502, "JWKS_FETCH_FAILED")
                /\ StoreCalls = {}

\* the items without the owner attributes that only app.py records
SansOwner(tbl) ==
    {[f \in DOMAIN it \ {"ownerSub", "ownerUsername"} |-> it[f]] : it \in tbl}

(* C15: for every request and every table, app.py and handler.py answer with the
   same status and the same error code and leave the same table behind, the
   ownerSub and ownerUsername attributes aside. *)
C15_SameContract ==
    Handled =>
        LET other == IF shape = "flask"
                     THEN lambda_handler(req, prev, clock)
                     ELSE flask_app(req, prev, jwks_client, jwks_last_init, clock)
        IN  /\ resp.status = other.resp.status
            /\ resp.code = other.resp.code
            /\ SansOwner(table) = SansOwner(other.table)

(* C16: in every reachable state of the table, after any sequence and any
   interleaving of create, update and delete requests, every stored item has a
   title that is a non-empty string without leading or trailing whitespace, of
   length at most 140. *)
C16_StoredTitles ==
    \A it \in table :
        /\ "title" \in DOMAIN it
        /\ it.title # <<>>
        /\ ~IsSpace(it.title[1]) /\ ~IsSpace(it.title[Len(it.title)])
        /\ Len(it.title) <= MAX_TITLE_LEN

C16_Witness ==
    /\ Handled /\ req.method = "PUT" /\ resp.status = 200
    /\ \E w \in Workers : inflight[w].busy /\ inflight[w].req.method = "POST"
    /\ \E it \in table : Len(it.title) = MAX_TITLE_LEN - 1
    /\ \E it \in table : it.title = <<"a">>

(* C17: with a clock that never goes backwards, every stored item has
   updatedAt >= createdAt in every reachable state: create stamps
   createdAt = updatedAt, and a successful update sets updatedAt to a value not
   less than the updatedAt the item had before. *)
C17_UpdatedAtNotBeforeCreatedAt ==
    /\ \A it \in table : it.updatedAt >= it.createdAt
    /\ (Handled /\ resp.status = 201) =>
          \A it \in resp.item : it.createdAt = it.updatedAt
    /\ (Handled /\ req.method = "PUT" /\ resp.status = 200) =>
          \A new \in resp.item : \A old \in prev :
              old.id = new.id => new.updatedAt >= old.updatedAt

(* C18: id, createdAt, ownerSub and ownerUsername of an item keep the values
   create gave them through every update, also when the body of the update has
   members named id, createdAt, ownerSub or ownerUsername and when the update is
   made by another principal than the creator. *)
C18_FrozenAttributes ==
    /\ Handled =>
          \A old \in prev : \A new \in table :
              old.id = new.id =>
                  /\ DOMAIN new = DOMAIN old
                  /\ \A f \in FrozenKeys \cap DOMAIN old : new[f] = old[f]
    /\ (Handled /\ req.method = "PUT" /\ resp.status = 200) =>
          /\ resp.item \subseteq table
          /\ \A new \in resp.item : \E old \in prev : old.id = new.id
    /\ \A it \in fresh : \A cur \in table :
          cur.id = it.id => \A f \in FrozenKeys \cap DOMAIN it : cur[f] = it[f]

C18_Witness ==
    /\ shape = "flask"
    /\ Handled /\ req.method = "PUT" /\ resp.status = 200
    /\ req.auth.token.name = "bob"
    /\ req.body.others = FrozenKeys
    /\ \E new \in resp.item :
          /\ new.ownerSub = "sub-alice" /\ new.ownerUsername = "alice"
          /\ new.createdAt < new.updatedAt

(* C19: however concurrent updates and deletes of one id interleave, once a
   delete has returned 204 the id is not in the table and stays out of it (no
   update, concurrent or later, brings it back in whole or in part, only a create
   that mints it again); an update returns 200 only if it was applied while the
   item was there, before the delete, and returns 404 after it. *)
C19_DeleteWinsOverUpdate ==
    /\ \A k \in gone : ~HasKey(table, k)
    /\ (Handled /\ req.method = "PUT") =>
          \A k \in ReqId(req) :
              /\ resp.status = 200 => (HasKey(prev, k) /\ HasKey(table, k) /\ k \notin gone)
              /\ k \in gone =>
                    /\ table = prev
                    /\ ValidPut(req) => resp = Resp(404, "NOT_FOUND")

C19_Witness ==
    /\ Handled /\ req.method = "DELETE" /\ resp.status = 204
    /\ req.worker # 0
    /\ \E w \in Workers :
          /\ inflight[w].busy
          /\ inflight[w].req.method = "PUT"
          /\ ReqId(inflight[w].req) = ReqId(req)
          /\ ValidPut(inflight[w].req)
          /\ inflight[w].now < clock

\* a client and a fetch time that belong to the same refresh (or to none)
SameRefresh(client, last_init) ==
    \/ client = {} /\ last_init = 0
    \/ client = {last_init}

(* C20: with concurrent callers of get_jwks_client, no caller reads a half
   written cache entry: the client and the fetch time a caller reads belong to
   the same refresh, never a new client with an old fetch time or the reverse. *)
C20_AtomicCachePair ==
    \A t \in Threads :
        callers[t].pc \in {"head", "client", "last_init", "return"} =>
            SameRefresh(callers[t].client, callers[t].last_init)

\* the requests.head calls of get_jwks_client() among a list of calls
HeadCalls(calls) == {i \in DOMAIN calls : calls[i].op = "requests.head"}

\* the token verifications among a list of calls
Verifications(calls) == {i \in DOMAIN calls : calls[i].op = "decode_and_verify"}

(* C21: requests handled one after the other: once a key-set client has been
   built at time f, a verification at time t with t - f <= TTL sends no
   requests.head and keeps that client; a verification with no client or with
   t - f > TTL sends exactly one requests.head, before the token is verified,
   and when it answers the client is the one built at t; no step that verifies
   no token touches the client. *)
C21_FetchOncePerWindow ==
    [][ /\ req' = NoReq => jwks_client' = jwks_client
        /\ (req = NoReq /\ req' # NoReq) =>
              LET cached == /\ jwks_client # {}
                            /\ \A f \in jwks_client : clock - f <= JWKS_TTL_SECONDS
                  heads == HeadCalls(ops')
                  verifs == Verifications(ops')
              IN  IF verifs = {} THEN heads = {} /\ jwks_client' = jwks_client
                  ELSE IF cached THEN heads = {} /\ jwks_client' = jwks_client
                  ELSE /\ Cardinality(heads) = 1
                       /\ \A h \in heads : \A v \in verifs : h < v
                       /\ \A h \in heads :
                             jwks_client' = IF ops'[h].res = "" THEN {clock}
                                            ELSE jwks_client
      ]_vars

\* a token was verified exactly TTL seconds after the client was built, with no
\* requests.head
C21_Witness ==
    /\ Handled
    /\ VerifierCalls # {}
    /\ HeadCalls(ops) = {}
    /\ jwks_client # {}
    /\ \A f \in jwks_client : f > 0 /\ clock - f = JWKS_TTL_SECONDS

\* POST /todos or PUT /todos/{id} that passes authentication, with a JSON content
\* type and a body that is JSON but not an object
NonObjectWrite(r) ==
    /\ \/ r.method = "POST" /\ r.path = <<"todos">>
       \/ r.method = "PUT" /\ ReqId(r) # {}
    /\ PassesGate(r)
    /\ JSON_CT_RE(r.ct)
    /\ r.body.kind \in {"null", "array", "string", "number", "boolean"}

(* C22: POST /todos and PUT /todos/{id} with a JSON content type and a body that
   is valid JSON but not an object are answered 400 with a body or validation
   error, never 500 INTERNAL_ERROR, and the table is left as it was. *)
C22_NonObjectBody ==
    (Handled /\ NonObjectWrite(req)) =>
        /\ resp.status = 400
        /\ resp.code # "INTERNAL_ERROR"
        /\ StoreCalls = {}
        /\ table = prev

(* C23: handler.py, for an event of any of the three shapes get_path_method
   reads (routeKey, path and httpMethod, rawPath under a stage): the key of
   every table call made for GET, PUT or DELETE /todos/{id} is the id in
   the path the client asked for. *)
C23_IdFromRequestedPath ==
    (/\ Handled
     /\ shape = "lambda"
     /\ req.method \in {"GET", "PUT", "DELETE"}
     /\ ReqId(req) # {}) =>
        \A i \in StoreCalls : ops[i].key \in ReqId(req)

====
